---- MODULE Spec2Model ----
(***************************************************************************)
(* PNG-BOBBER: a model of PNGBobAnimator (src/png_bob_animator.py).        *)
(*                                                                         *)
(* One animator object is modelled together with its caller.  The caller   *)
(* configures the animator (set_animation_params, set_performance_options) *)
(* and calls create_animation or save_gif.  create_animation is modelled   *)
(* step by step: load_png, the choice of the sequential or the parallel    *)
(* path, one step per loop iteration, one step per worker task that        *)
(* finishes, and save_gif.                                                 *)
(*                                                                         *)
(* Pillow and the thread pool are libraries: they are modelled by what the *)
(* animator relies on.  Image.new raises ValueError for a negative size,   *)
(* ThreadPoolExecutor raises ValueError for max_workers <= 0 and starts    *)
(* its tasks in submission order.  use_numpy_acceleration is written by    *)
(* the setters and read nowhere, so it is not part of the state.           *)
(*                                                                         *)
(* The preview of PNGBobAnimatorGUI is modelled beside it (SpecGui): the   *)
(* Preview button, the preview threads it starts, and the after()          *)
(* callbacks of the Tk main loop that play the preview.                    *)
(***************************************************************************)
EXTENDS Integers, Sequences, FiniteSets, TLC

(***************************************************************************)
(* Bounds of the model.                                                    *)
(***************************************************************************)
MaxFrameCount == 5        \* largest frame_count the caller sets in Spec
MaxBobHeight == 1         \* largest bob_height the caller sets in Spec
MaxRuns == 2              \* calls of create_animation / save_gif per behaviour
MaxFaults == 1            \* create_frame calls the environment lets fail
ImgWidth == 3             \* width of the source image
ImgHeight == 2            \* height of the source image
MotionMaxFrames == 7      \* largest frame_count of SpecMotion
MotionMaxBob == 6         \* largest bob_height of SpecMotion
MaxClicks == 2            \* Preview clicks that start a preview thread
MaxCreates == 2           \* Create Animation clicks that start a creation thread
MaxJobs == 2              \* animate_preview callbacks scheduled per behaviour

(***************************************************************************)
(* Program constants.                                                      *)
(***************************************************************************)
DefaultFrameCount == 30
DefaultBobHeight == 10
DefaultFrameDuration == 80
WorkerCeiling == 8        \* min(multiprocessing.cpu_count(), 8)
ParallelThreshold == 4    \* self.frame_count > 4
CanvasMargin == 20        \* img.width + 20, img.height + ... + 20
TopMargin == 10           \* img_y = 10 + ...
PaletteSample == 4        \* self.frames[:4]
PaletteColors == 256      \* colors=256
GifLoop == 0              \* loop=0
GifDisposal == 2          \* disposal=2
GifTransparency == 0      \* transparency=0
SinScale == 1000000       \* fixed point: sines are kept in millionths
PreviewCap == 15          \* min(15, self.frame_count.get())
PreviewMinDelay == 100    \* max(100, self.frame_duration.get())

Min(a, b) == IF a <= b THEN a ELSE b

(***************************************************************************)
(* math.sin(frame_index / frame_count * 2 * math.pi), in millionths,       *)
(* truncated toward zero: SinTable[n][i + 1] for frame_count n in 1..15    *)
(* and frame_index i in 0..n-1.  For every bob_height in -40..40 the       *)
(* product with these entries truncates to the same integer as the product *)
(* with the double that math.sin returns.                                  *)
(***************************************************************************)
SinTable ==
  << <<0>>,
     <<0, 0>>,
     <<0, 866025, -866025>>,
     <<0, 1000000, 0, -1000000>>,
     <<0, 951056, 587785, -587785, -951056>>,
     <<0, 866025, 866025, 0, -866025, -866025>>,
     <<0, 781831, 974927, 433883, -433883, -974927, -781831>>,
     <<0, 707106, 1000000, 707106, 0, -707106, -1000000, -707106>>,
     <<0, 642787, 984807, 866025, 342020, -342020, -866025, -984807, -642787>>,
     <<0, 587785, 951056, 951056, 587785, 0, -587785, -951056, -951056, -587785>>,
     <<0, 540640, 909631, 989821, 755749, 281732, -281732, -755749, -989821,
       -909631, -540640>>,
     <<0, 499999, 866025, 1000000, 866025, 499999, 0, -500000, -866025, -1000000,
       -866025, -500000>>,
     <<0, 464723, 822983, 992708, 935016, 663122, 239315, -239315, -663122,
       -935016, -992708, -822983, -464723>>,
     <<0, 433883, 781831, 974927, 974927, 781831, 433883, 0, -433883, -781831,
       -974927, -974927, -781831, -433883>>,
     <<0, 406736, 743144, 951056, 994521, 866025, 587785, 207911, -207911,
       -587785, -866025, -994521, -951056, -743144, -406736>> >>

\* math.sin(2 * math.pi), the angle of frame_index = frame_count, is
\* -2.4e-16: nothing in millionths, and its product with a bob_height
\* truncates to 0.
SinMicro(frame_index, n) ==
  IF frame_index = n THEN 0 ELSE SinTable[n][frame_index + 1]

\* Python's int() of a float: truncation toward zero (here of a / b, b > 0).
IntTrunc(a, b) == IF a >= 0 THEN a \div b ELSE -((-a) \div b)

\* round() instead of int(): the nearest integer (b > 0; \div rounds down).
IntRound(a, b) == (2 * a + b) \div (2 * b)
BobOffsetRounded(frame_index, n, bob) == IntRound(SinMicro(frame_index, n) * bob, SinScale)

\* the sine scaled by the whole travel, self.bob_height * 2, of line 87
BobOffsetFullTravel(frame_index, n, bob) ==
  IntTrunc(SinMicro(frame_index, n) * (bob * 2), SinScale)

\* create_frame, line 83: bob_offset = int(math.sin(angle) * self.bob_height)
BobOffset(frame_index, n, bob) == IntTrunc(SinMicro(frame_index, n) * bob, SinScale)

\* The source image handed to create_frame (load_png's result).
Img == [width |-> ImgWidth, height |-> ImgHeight]

CanvasWidth(img) == img.width + CanvasMargin
CanvasHeight(img, bob) == img.height + bob * 2 + CanvasMargin

\* Image.new raises ValueError("Width and height must be >= 0").
CreateFrameRaises(img, bob) == CanvasWidth(img) < 0 \/ CanvasHeight(img, bob) < 0

\* create_frame: the canvas and where the source is pasted on it.
CreateFrame(img, frame_index, n, bob) ==
  [ index  |-> frame_index,
    offset |-> BobOffset(frame_index, n, bob),
    width  |-> CanvasWidth(img),
    height |-> CanvasHeight(img, bob),
    img_x  |-> (CanvasWidth(img) - img.width) \div 2,
    img_y  |-> TopMargin + bob - BobOffset(frame_index, n, bob) ]

(***************************************************************************)
(* GIF artifacts.                                                          *)
(***************************************************************************)
NoFrame == [index |-> -1, offset |-> 0, width |-> 0, height |-> 0, img_x |-> 0, img_y |-> 0]

NoArtifact ==
  [mode |-> "none", frames |-> <<>>, duration |-> 0, loop |-> 0, disposal |-> 0,
   transparency |-> -1]

\* a palette computed from every frame of the list
BuildPaletteAllFrames(fs) == [sample |-> fs, colors |-> PaletteColors]

\* _save_optimized_gif, lines 165-177: the palette comes from the first four
\* frames, pasted side by side and converted with an adaptive 256-colour palette.
BuildPalette(fs) ==
  [sample |-> SubSeq(fs, 1, Min(PaletteSample, Len(fs))), colors |-> PaletteColors]

\* frame.quantize(palette=combined_p), line 183
Quantize(frame, palette) == [src |-> frame, palette |-> palette]

\* lines 180-195: every frame quantized, then saved with save_all.
OptimizedGif(fs, duration) ==
  [mode |-> "optimized",
   frames |-> [k \in 1..Len(fs) |-> Quantize(fs[k], BuildPalette(fs))],
   duration |-> duration, loop |-> GifLoop, disposal |-> GifDisposal,
   transparency |-> -1]

\* save() without save_all and append_images: the first frame alone
StandardGifFirstFrame(fs, duration) ==
  [mode |-> "standard", frames |-> SubSeq(fs, 1, 1),
   duration |-> duration, loop |-> GifLoop, disposal |-> GifDisposal,
   transparency |-> GifTransparency]

\* _save_standard_gif, lines 203-212
StandardGif(fs, duration) ==
  [mode |-> "standard", frames |-> fs,
   duration |-> duration, loop |-> GifLoop, disposal |-> GifDisposal,
   transparency |-> GifTransparency]

\* save_gif without its guard
NoFramesUnchecked(fs) == FALSE

\* save_gif, line 147: if not self.frames
NoFramesToSave(fs) == fs = <<>>

\* The steps inside the try block of _save_optimized_gif that can raise.
OptSteps == {"palette", "quantize", "save"}

(***************************************************************************)
(* State.                                                                  *)
(***************************************************************************)
VARIABLES
  cpu_count,            \* multiprocessing.cpu_count() of the host
  frame_count, bob_height, frame_duration,
  use_multiprocessing, optimize_gif, max_workers,
  frames,               \* self.frames
  pc,                   \* where the caller is: idle, loaded, seq, par, generated, done
  call,                 \* the public method in progress or last called
  i,                    \* loop index of the sequential loop / of the collecting loop
  futures,              \* the futures list of _create_frames_parallel
  poolSize,             \* max_workers the ThreadPoolExecutor was created with
  result,               \* how the call ended: ok or the exception raised
  written,              \* the artifact the call wrote to output_path
  optFailure,           \* the step of _save_optimized_gif that raised, or none
  encoderInput,         \* self.frames as save_gif found it
  srcResolved,          \* whether png_path resolved when load_png ran
  composed,             \* create_frame calls made by the call
  runs,                 \* calls made so far
  faults,               \* create_frame calls the environment made fail
  genLog                \* per concurrency setting, the last generation's parameters and frames

\* The window of PNGBobAnimatorGUI: its settings, its preview, and the Tk
\* main loop that runs its callbacks.
VARIABLES
  gui_frame_count,      \* self.frame_count, the IntVar behind the Frame Count slider
  gui_bob_height,       \* self.bob_height, the IntVar behind the Bob Height slider
  gui_frame_duration,   \* self.frame_duration, the IntVar behind the Animation Speed slider
  preview_frames,       \* self.preview_frames
  preview_playing,      \* self.preview_playing
  preview_job,          \* self.preview_job: NoJob (None) or the id root.after returned
  current_preview_frame, \* self.current_preview_frame, NoAttr until first assigned
  previewThreads,       \* the threads started by create_preview, by number
  clicks,               \* preview threads started so far
  startsPending,        \* after(0, self.start_preview_animation) callbacks not yet run
  timers,               \* after(delay, self.animate_preview) callbacks not yet run
  jobs,                 \* ids root.after has handed out for them
  mainPc,               \* where the main loop is: idle, or inside animate_preview
  indexed               \* the last execution of line 659

\* The Create Animation button of the window and the threads it starts.
VARIABLES
  create_button,        \* state of self.create_button: normal or disabled
  progress_var,         \* self.progress_var, in whole percent
  creationThreads,      \* the threads started by create_animation, by number
  creates,              \* creation threads started so far
  afterQueue            \* after(0, ...) callbacks of the creation threads not yet run

preview ==
  << gui_frame_count, gui_bob_height, gui_frame_duration, preview_frames,
     preview_playing, preview_job, current_preview_frame, previewThreads, clicks,
     startsPending, timers, jobs, mainPc, indexed >>

creation == << create_button, progress_var, creationThreads, creates, afterQueue >>

gui == << preview, creation >>

animator ==
  << cpu_count, frame_count, bob_height, frame_duration, use_multiprocessing,
     optimize_gif, max_workers, frames, pc, call, i, futures, poolSize, result,
     written, optFailure, encoderInput, srcResolved, composed, runs, faults, genLog >>

vars == << animator, gui >>

params == << frame_count, bob_height, frame_duration >>
perf == << use_multiprocessing, optimize_gif, max_workers >>
callHist == << written, optFailure, encoderInput >>

NotCalled == [called |-> FALSE, frames |-> <<>>]
NoLog == [frame_count |-> -1, bob_height |-> 0, frames |-> <<>>]

(***************************************************************************)
(* Inputs of the caller and of the environment.                            *)
(***************************************************************************)
CpuCounts == {2, 9}
FrameCountInputs == {0, 1} \cup (ParallelThreshold..MaxFrameCount)
\* bob_height: in range, too negative for a canvas to exist, and negative
\* with a canvas that still exists.
BobHeightInputs ==
  {-(ImgHeight + CanvasMargin), -(TopMargin - ImgHeight)} \cup (1..MaxBobHeight)
DurationInputs == {0, 80}
WorkerInputs == {0, 9}

\* An optional argument: None, or a value.
Opt(S) == {[given |-> FALSE, v |-> 0]} \cup {[given |-> TRUE, v |-> x] : x \in S}

(***************************************************************************)
(* PNGBobAnimatorGUI.__init__, lines 253-284.                              *)
(***************************************************************************)
NoJob == 0       \* self.preview_job = None
NoAttr == -1     \* self.current_preview_frame before its first assignment

\* A preview thread that create_preview has not started yet.
NoThread == [pc |-> "none", cfgCount |-> 0, n |-> 0, built |-> <<>>, j |-> 0]

\* A creation thread that create_animation has not started yet.
NoCreation == [pc |-> "none", n |-> 0, i |-> 0, outcome |-> "none"]

\* Line 659 not executed yet.
NotIndexed == [called |-> FALSE, at |-> 0, len |-> 0]

GuiInit ==
  /\ gui_frame_count = DefaultFrameCount
  /\ gui_bob_height = DefaultBobHeight
  /\ gui_frame_duration = DefaultFrameDuration
  /\ preview_frames = <<>>
  /\ preview_playing = FALSE
  /\ preview_job = NoJob
  /\ current_preview_frame = NoAttr
  /\ previewThreads = [t \in 1..MaxClicks |-> NoThread]
  /\ clicks = 0
  /\ startsPending = 0
  /\ timers = {}
  /\ jobs = 0
  /\ mainPc = "idle"
  /\ indexed = NotIndexed
  /\ create_button = "normal"
  /\ progress_var = 0
  /\ creationThreads = [t \in 1..MaxCreates |-> NoCreation]
  /\ creates = 0
  /\ afterQueue = <<>>

(***************************************************************************)
(* PNGBobAnimator.__init__, lines 37-53.                                   *)
(***************************************************************************)
Init ==
  /\ cpu_count \in CpuCounts
  /\ frame_count = DefaultFrameCount
  /\ bob_height = DefaultBobHeight
  /\ frame_duration = DefaultFrameDuration
  /\ use_multiprocessing = TRUE
  /\ optimize_gif = TRUE
  /\ max_workers = Min(cpu_count, WorkerCeiling)
  /\ frames = <<>>
  /\ pc = "idle"
  /\ call = "none"
  /\ i = 0
  /\ futures = <<>>
  /\ poolSize = 0
  /\ result = "none"
  /\ written = NoArtifact
  /\ optFailure = "none"
  /\ encoderInput = NotCalled
  /\ srcResolved = TRUE
  /\ composed = 0
  /\ runs = 0
  /\ faults = 0
  /\ genLog = [c \in BOOLEAN |-> NoLog]
  /\ GuiInit

\* set_animation_params, lines 214-229.  The caller sets the animation
\* parameters before its first call, as every caller in the repository does.
SetAnimationParams(fc, bh, fd) ==
  /\ pc = "idle"
  /\ runs = 0
  /\ frame_count' = IF fc.given THEN fc.v ELSE frame_count
  /\ bob_height' = IF bh.given THEN bh.v ELSE bob_height
  /\ frame_duration' = IF fd.given THEN fd.v ELSE frame_duration
  /\ UNCHANGED gui
  /\ UNCHANGED << cpu_count, perf, frames, pc, call, i, futures, poolSize, result,
                  callHist, srcResolved, composed, runs, faults, genLog >>

\* set_performance_options, line 248: min(max_workers, multiprocessing.cpu_count())
ClampWorkers(requested, cpus) == Min(requested, cpus)

\* set_performance_options, lines 231-248.  The caller may change the
\* performance options between calls.
SetPerformanceOptions(mp, og, mw) ==
  /\ pc = "idle"
  /\ runs < MaxRuns
  /\ use_multiprocessing' = mp
  /\ optimize_gif' = og
  /\ max_workers' = IF mw.given THEN ClampWorkers(mw.v, cpu_count) ELSE max_workers
  /\ UNCHANGED gui
  /\ UNCHANGED << cpu_count, params, frames, pc, call, i, futures, poolSize, result,
                  callHist, srcResolved, composed, runs, faults, genLog >>

(***************************************************************************)
(* create_animation, lines 99-114.                                         *)
(***************************************************************************)
\* A public call begins: the record of the call in progress.
BeginCall(name) ==
  /\ call' = name
  /\ runs' = runs + 1
  /\ UNCHANGED << composed, i, futures, poolSize >>

\* create_animation going on to generate although the path did not resolve
LoadPngUnchecked ==
  /\ pc = "idle"
  /\ runs < MaxRuns
  /\ frame_count <= Len(SinTable)
  /\ BeginCall("create_animation")
  /\ UNCHANGED callHist
  /\ \E resolves \in BOOLEAN : srcResolved' = resolves
  /\ pc' = "loaded"
  /\ result' = "running"
  /\ UNCHANGED gui
  /\ UNCHANGED << cpu_count, params, perf, frames, faults, genLog >>

\* create_animation up to line 102, with load_png (lines 60-68): Image.open
\* raises when the path does not resolve, and load_png re-raises ValueError.
\* Whether the path resolves is the environment's choice at each call.  The
\* model follows the calls whose frame_count SinTable covers.
LoadPng ==
  /\ pc = "idle"
  /\ runs < MaxRuns
  /\ frame_count <= Len(SinTable)
  /\ BeginCall("create_animation")
  /\ UNCHANGED callHist
  /\ \E resolves \in BOOLEAN :
        /\ srcResolved' = resolves
        /\ IF resolves
             THEN pc' = "loaded" /\ result' = "running"
             ELSE pc' = "done" /\ result' = "LoadError"
  /\ UNCHANGED gui
  /\ UNCHANGED << cpu_count, params, perf, frames, faults, genLog >>

\* line 106: if self.use_multiprocessing and self.frame_count > 4
UseParallel(mp, n) == mp /\ n > ParallelThreshold

\* The generation that just completed, remembered per concurrency setting.
LogGeneration(fs) ==
  [genLog EXCEPT ![use_multiprocessing] =
     [frame_count |-> frame_count, bob_height |-> bob_height, frames |-> fs]]

\* A future: pending, done (with its frame) or raised; collected once the
\* collecting loop has taken its result.
Pending == [state |-> "pending", frame |-> NoFrame, collected |-> FALSE]

\* lines 106-111, and the head of the path taken: the executor and the
\* submissions of lines 127-132, or the entry of the loop of line 118.
Dispatch ==
  /\ pc = "loaded"
  /\ IF UseParallel(use_multiprocessing, frame_count)
       THEN IF max_workers <= 0
              THEN \* ThreadPoolExecutor: ValueError("max_workers must be greater than 0")
                   /\ pc' = "done"
                   /\ result' = "PoolError"
                   /\ UNCHANGED << frames, futures, poolSize, genLog >>
              ELSE /\ poolSize' = max_workers
                   /\ futures' = [k \in 1..frame_count |-> Pending]
                   /\ frames' = <<>>
                   /\ pc' = "par"
                   /\ UNCHANGED << result, genLog >>
       ELSE /\ IF frame_count <= 0
                 THEN pc' = "generated" /\ genLog' = LogGeneration(frames)
                 ELSE pc' = "seq" /\ UNCHANGED genLog
            /\ UNCHANGED << frames, futures, poolSize, result >>
  /\ UNCHANGED gui
  /\ UNCHANGED << cpu_count, params, perf, call, i, callHist, srcResolved,
                  composed, runs, faults >>

\* Whether the environment may make one more create_frame call fail.
FaultChoices(img, bob) ==
  IF faults < MaxFaults /\ ~CreateFrameRaises(img, bob) THEN BOOLEAN ELSE {FALSE}

\* _create_frames_sequential, lines 116-120: one iteration of the loop.
\* An exception of create_frame leaves the loop and create_animation.
SeqStep ==
  /\ pc = "seq"
  /\ composed' = composed + 1
  /\ \E fault \in FaultChoices(Img, bob_height) :
        /\ faults' = IF fault THEN faults + 1 ELSE faults
        /\ IF fault \/ CreateFrameRaises(Img, bob_height)
             THEN /\ pc' = "done"
                  /\ result' = "FrameError"
                  /\ UNCHANGED << frames, i, genLog >>
             ELSE /\ frames' = Append(frames, CreateFrame(Img, i, frame_count, bob_height))
                  /\ i' = i + 1
                  /\ IF i + 1 = frame_count
                       THEN pc' = "generated" /\ genLog' = LogGeneration(frames')
                       ELSE pc' = "seq" /\ UNCHANGED genLog
                  /\ UNCHANGED result
  /\ UNCHANGED gui
  /\ UNCHANGED << cpu_count, params, perf, call, futures, poolSize, callHist,
                  srcResolved, runs >>

\* The pool runs at most poolSize tasks at a time and starts them in submission
\* order: a task can be running when fewer than poolSize earlier ones are unfinished.
CanRun(k) ==
  /\ futures[k].state = "pending"
  /\ Cardinality({j \in 1..(k - 1) : futures[j].state = "pending"}) < poolSize

\* a compositor that takes its frame index from a counter the tasks share,
\* not from its argument
TaskFinishSharedIndex(k) ==
  /\ pc = "par"
  /\ CanRun(k)
  /\ composed' = composed + 1
  /\ futures' = [futures EXCEPT ![k] =
        IF CreateFrameRaises(Img, bob_height)
          THEN [state |-> "raised", frame |-> NoFrame, collected |-> FALSE]
          ELSE [state |-> "done",
                frame |-> CreateFrame(Img, composed, frame_count, bob_height),
                collected |-> FALSE]]
  /\ UNCHANGED gui
  /\ UNCHANGED << cpu_count, params, perf, frames, pc, call, i, poolSize, result,
                  callHist, srcResolved, runs, faults, genLog >>

\* A worker finishes executor.submit(self.create_frame, img, k - 1), line 129.
TaskFinish(k) ==
  /\ pc = "par"
  /\ CanRun(k)
  /\ composed' = composed + 1
  /\ \E fault \in FaultChoices(Img, bob_height) :
        /\ faults' = IF fault THEN faults + 1 ELSE faults
        /\ futures' = [futures EXCEPT ![k] =
              IF fault \/ CreateFrameRaises(Img, bob_height)
                THEN [state |-> "raised", frame |-> NoFrame, collected |-> FALSE]
                ELSE [state |-> "done",
                      frame |-> CreateFrame(Img, k - 1, frame_count, bob_height),
                      collected |-> FALSE]]
  /\ UNCHANGED gui
  /\ UNCHANGED << cpu_count, params, perf, frames, pc, call, i, poolSize, result,
                  callHist, srcResolved, runs, genLog >>

\* concurrent.futures.as_completed instead of the submission order: the
\* collecting loop takes a finished future when there is one.
FutureAsCompleted(fut, n) ==
  IF \E k \in 1..Len(fut) : fut[k].state # "pending" /\ ~fut[k].collected
    THEN CHOOSE k \in 1..Len(fut) : fut[k].state # "pending" /\ ~fut[k].collected
    ELSE n + 1

\* line 133: for i, future in enumerate(futures): the future the i-th
\* iteration waits on is the i-th submitted.
FutureToCollect(fut, n) == n + 1

\* a collecting loop that does not wait: a future that has no result yet is
\* passed over
CollectWithoutWaiting ==
  /\ pc = "par"
  /\ i < Len(futures)
  /\ futures' = [futures EXCEPT ![i + 1].collected = TRUE]
  /\ frames' = IF futures[i + 1].state = "done"
                 THEN Append(frames, futures[i + 1].frame)
                 ELSE frames
  /\ i' = i + 1
  /\ IF i + 1 = Len(futures)
       THEN pc' = "generated" /\ genLog' = LogGeneration(frames')
       ELSE pc' = "par" /\ UNCHANGED genLog
  /\ UNCHANGED << result, composed, faults >>
  /\ UNCHANGED gui
  /\ UNCHANGED << cpu_count, params, perf, call, poolSize, callHist, srcResolved, runs >>

\* lines 133-143: one iteration of the collecting loop.  future.result()
\* blocks until the task is finished; a task that raised is recomputed by a
\* direct call of create_frame, whose exception nothing catches.
Collect ==
  /\ pc = "par"
  /\ i < Len(futures)
  /\ LET k == FutureToCollect(futures, i) IN
       /\ futures[k].state # "pending"
       /\ ~futures[k].collected
       /\ futures' = [futures EXCEPT ![k].collected = TRUE]
       /\ IF futures[k].state = "done"
            THEN /\ frames' = Append(frames, futures[k].frame)
                 /\ i' = i + 1
                 /\ IF i + 1 = Len(futures)
                      THEN pc' = "generated" /\ genLog' = LogGeneration(frames')
                      ELSE pc' = "par" /\ UNCHANGED genLog
                 /\ UNCHANGED << result, composed, faults >>
            ELSE /\ composed' = composed + 1
                 /\ \E fault \in FaultChoices(Img, bob_height) :
                       /\ faults' = IF fault THEN faults + 1 ELSE faults
                       /\ IF fault \/ CreateFrameRaises(Img, bob_height)
                            THEN /\ pc' = "done"
                                 /\ result' = "FrameError"
                                 /\ UNCHANGED << frames, i, genLog >>
                            ELSE /\ frames' = Append(frames,
                                        CreateFrame(Img, i, frame_count, bob_height))
                                 /\ i' = i + 1
                                 /\ IF i + 1 = Len(futures)
                                      THEN pc' = "generated" /\ genLog' = LogGeneration(frames')
                                      ELSE pc' = "par" /\ UNCHANGED genLog
                                 /\ UNCHANGED result
  /\ UNCHANGED gui
  /\ UNCHANGED << cpu_count, params, perf, call, poolSize, callHist, srcResolved, runs >>

(***************************************************************************)
(* save_gif, lines 145-212.                                                *)
(***************************************************************************)
\* _save_optimized_gif without its except clause
SaveOptimizedNoFallback(failAt) ==
  /\ optFailure' = failAt
  /\ written' = IF failAt = "none" THEN OptimizedGif(frames, frame_duration) ELSE NoArtifact
  /\ result' = IF failAt = "none" THEN "ok" ELSE "EncodeError"

\* _save_optimized_gif: the try block, and the except that calls
\* _save_standard_gif for the whole list.
SaveOptimized(failAt) ==
  /\ optFailure' = failAt
  /\ written' = IF failAt = "none"
                  THEN OptimizedGif(frames, frame_duration)
                  ELSE StandardGif(frames, frame_duration)
  /\ result' = "ok"

SaveGifBody ==
  /\ encoderInput' = [called |-> TRUE, frames |-> frames]
  /\ pc' = "done"
  /\ IF NoFramesToSave(frames)
       THEN /\ result' = "NoFrames"     \* ValueError("No frames to save")
            /\ written' = NoArtifact
            /\ optFailure' = "none"
       ELSE IF optimize_gif
              THEN \E failAt \in OptSteps \cup {"none"} : SaveOptimized(failAt)
              ELSE /\ written' = StandardGif(frames, frame_duration)
                   /\ optFailure' = "none"
                   /\ result' = "ok"

\* line 114 of create_animation: self.save_gif()
SaveGifInRun ==
  /\ pc = "generated"
  /\ SaveGifBody
  /\ UNCHANGED gui
  /\ UNCHANGED << cpu_count, params, perf, frames, call, i, futures, poolSize,
                  srcResolved, composed, runs, faults, genLog >>

\* save_gif called by the caller itself
SaveGifDirect ==
  /\ pc = "idle"
  /\ runs < MaxRuns
  /\ BeginCall("save_gif")
  /\ SaveGifBody
  /\ UNCHANGED gui
  /\ UNCHANGED << cpu_count, params, perf, frames, srcResolved, faults, genLog >>

\* The call returns, or its exception reaches the caller: the record of the
\* call is dropped and the animator is ready for the next call.
Return ==
  /\ pc = "done"
  /\ pc' = "idle"
  /\ call' = "none"
  /\ i' = 0
  /\ futures' = <<>>
  /\ poolSize' = 0
  /\ result' = "none"
  /\ written' = NoArtifact
  /\ optFailure' = "none"
  /\ encoderInput' = NotCalled
  /\ srcResolved' = TRUE
  /\ composed' = 0
  /\ UNCHANGED gui
  /\ UNCHANGED << cpu_count, params, perf, frames, runs, faults, genLog >>

Next ==
  \/ \E fc \in Opt(FrameCountInputs), bh \in Opt(BobHeightInputs), fd \in Opt(DurationInputs) :
        SetAnimationParams(fc, bh, fd)
  \/ \E mp \in BOOLEAN, og \in BOOLEAN, mw \in Opt(WorkerInputs) :
        SetPerformanceOptions(mp, og, mw)
  \/ LoadPng
  \/ Dispatch
  \/ SeqStep
  \/ \E k \in 1..Len(futures) : TaskFinish(k)
  \/ Collect
  \/ SaveGifInRun
  \/ SaveGifDirect
  \/ Return

Spec == Init /\ [][Next]_vars

(***************************************************************************)
(* SpecMotion: the motion model and the compositor on their own.  The      *)
(* animator is configured with in-range parameters and generates           *)
(* sequentially, so every frame of the list was composed with the          *)
(* parameters the animator holds.                                          *)
(***************************************************************************)
InitMotion ==
  /\ cpu_count = 2
  /\ frame_count \in 1..MotionMaxFrames
  /\ bob_height \in 0..MotionMaxBob
  /\ frame_duration = DefaultFrameDuration
  /\ use_multiprocessing = FALSE
  /\ optimize_gif \in BOOLEAN
  /\ max_workers = Min(cpu_count, WorkerCeiling)
  /\ frames = <<>>
  /\ pc = "idle"
  /\ call = "none"
  /\ i = 0
  /\ futures = <<>>
  /\ poolSize = 0
  /\ result = "none"
  /\ written = NoArtifact
  /\ optFailure = "none"
  /\ encoderInput = NotCalled
  /\ srcResolved = TRUE
  /\ composed = 0
  /\ runs = 0
  /\ faults = 0
  /\ genLog = [c \in BOOLEAN |-> NoLog]
  /\ GuiInit

NextMotion ==
  \/ LoadPng
  \/ Dispatch
  \/ SeqStep
  \/ SaveGifInRun
  \/ Return

SpecMotion == InitMotion /\ [][NextMotion]_vars

(***************************************************************************)
(* PNGBobAnimatorGUI: the preview.  The Tk main loop runs one callback at  *)
(* a time (a click, a slider move, an after() callback); the preview       *)
(* threads run beside it and can be scheduled between any two statements   *)
(* of a callback.  animate_preview is therefore modelled statement by      *)
(* statement; create_preview touches the state the threads share in one    *)
(* statement only and is one step.                                         *)
(***************************************************************************)
GuiMinFrames == 10        \* Frame Count slider, from_=10
GuiMaxDuration == 200     \* Animation Speed slider, to=200
PreviewWidth == 250       \* scale_factor = 250 / frame.width

\* Positions the user moves the sliders to (the Bob Height slider is left alone).
FrameCountSlider == {GuiMinFrames, DefaultFrameCount}
DurationSlider == {DefaultFrameDuration, GuiMaxDuration}

\* The user moves the Frame Count and Animation Speed sliders, before the
\* first click on Preview.
MoveSliders(fc, fd) ==
  /\ mainPc = "idle"
  /\ clicks = 0
  /\ gui_frame_count' = fc
  /\ gui_frame_duration' = fd
  /\ << fc, fd >> # << gui_frame_count, gui_frame_duration >>
  /\ UNCHANGED << gui_bob_height, preview_frames, preview_playing, preview_job,
                  current_preview_frame, previewThreads, clicks, startsPending,
                  timers, jobs, mainPc, indexed >>
  /\ UNCHANGED creation
  /\ UNCHANGED animator

\* a preview of 15 frames whatever the Frame Count slider says
PreviewFrameCountFixed(configured) == PreviewCap

\* line 604: preview_frames = min(15, self.frame_count.get())
PreviewFrameCount(configured) == Min(PreviewCap, configured)

\* lines 610 and 665: max(100, self.frame_duration.get())
PreviewDelay(configured) ==
  IF configured > PreviewMinDelay THEN configured ELSE PreviewMinDelay

\* lines 619-626: the frame resized to 250 pixels of width, as the PhotoImage
\* of line 633 shows it.
PreviewPhoto(frame) ==
  [ index  |-> frame.index,
    offset |-> frame.offset,
    width  |-> PreviewWidth,
    height |-> (frame.height * PreviewWidth) \div frame.width ]

\* stop_preview, lines 668-683.  after_cancel removes the callback recorded in
\* preview_job if it is still pending.
StopPreview ==
  /\ preview_playing' = FALSE
  /\ timers' = IF preview_job # NoJob
                 THEN {tm \in timers : tm.id # preview_job}
                 ELSE timers
  /\ preview_job' = NoJob
  /\ preview_frames' = <<>>

\* create_preview, lines 581-595, for a click that passes the two checks of
\* the input file (a click that fails one returns before changing anything).
ClickPreview ==
  /\ mainPc = "idle"
  /\ clicks < MaxClicks
  /\ StopPreview
  /\ clicks' = clicks + 1
  /\ previewThreads' = [previewThreads EXCEPT ![clicks + 1].pc = "started"]
  /\ UNCHANGED << gui_frame_count, gui_bob_height, gui_frame_duration,
                  current_preview_frame, startsPending, jobs, mainPc, indexed >>
  /\ UNCHANGED creation
  /\ UNCHANGED animator

\* create_preview_thread, lines 604-627: a private animator is configured
\* from the sliders, the source is loaded and the frames are composed and
\* resized, all in the thread's own variables.  load_png may raise, and the
\* except clause of line 643 ends the thread.
PreviewCompose(t) ==
  /\ previewThreads[t].pc = "started"
  /\ \E loads \in BOOLEAN :
        previewThreads' = [previewThreads EXCEPT ![t] =
           IF loads
             THEN LET n == PreviewFrameCount(gui_frame_count) IN
                  [ pc |-> "composed",
                    cfgCount |-> gui_frame_count,
                    n |-> n,
                    built |-> [k \in 1..n |->
                                 PreviewPhoto(CreateFrame(Img, k - 1, n, gui_bob_height))],
                    j |-> 0 ]
             ELSE [NoThread EXCEPT !.pc = "failed"]]
  /\ UNCHANGED << gui_frame_count, gui_bob_height, gui_frame_duration, preview_frames,
                  preview_playing, preview_job, current_preview_frame, clicks,
                  startsPending, timers, jobs, mainPc, indexed >>
  /\ UNCHANGED creation
  /\ UNCHANGED animator

\* line 631: self.preview_frames = [].  The model follows the schedules in
\* which one thread at a time is inside lines 631-641.
PreviewClear(t) ==
  /\ previewThreads[t].pc = "composed"
  /\ \A u \in 1..MaxClicks : previewThreads[u].pc # "publishing"
  /\ preview_frames' = <<>>
  /\ previewThreads' = [previewThreads EXCEPT ![t].pc = "publishing"]
  /\ UNCHANGED << gui_frame_count, gui_bob_height, gui_frame_duration, preview_playing,
                  preview_job, current_preview_frame, clicks, startsPending, timers,
                  jobs, mainPc, indexed >>
  /\ UNCHANGED creation
  /\ UNCHANGED animator

\* lines 632-634: one iteration; the append goes to the list self.preview_frames
\* names at that moment.
PreviewAppend(t) ==
  /\ previewThreads[t].pc = "publishing"
  /\ previewThreads[t].j < Len(previewThreads[t].built)
  /\ preview_frames' = Append(preview_frames,
                              previewThreads[t].built[previewThreads[t].j + 1])
  /\ previewThreads' = [previewThreads EXCEPT ![t].j = @ + 1]
  /\ UNCHANGED << gui_frame_count, gui_bob_height, gui_frame_duration, preview_playing,
                  preview_job, current_preview_frame, clicks, startsPending, timers,
                  jobs, mainPc, indexed >>
  /\ UNCHANGED creation
  /\ UNCHANGED animator

\* line 641: self.root.after(0, self.start_preview_animation)
PreviewSchedule(t) ==
  /\ previewThreads[t].pc = "publishing"
  /\ previewThreads[t].j = Len(previewThreads[t].built)
  /\ startsPending' = startsPending + 1
  /\ previewThreads' = [previewThreads EXCEPT ![t].pc = "done"]
  /\ UNCHANGED << gui_frame_count, gui_bob_height, gui_frame_duration, preview_frames,
                  preview_playing, preview_job, current_preview_frame, clicks,
                  timers, jobs, mainPc, indexed >>
  /\ UNCHANGED creation
  /\ UNCHANGED animator

\* start_preview_animation, lines 646-651, up to its call of animate_preview.
\* The model follows the callbacks while root.after has ids left to hand out.
StartPreviewAnimation ==
  /\ mainPc = "idle"
  /\ startsPending > 0
  /\ jobs < MaxJobs
  /\ startsPending' = startsPending - 1
  /\ IF preview_frames # <<>>
       THEN /\ preview_playing' = TRUE
            /\ current_preview_frame' = 0
            /\ mainPc' = "guard"
       ELSE UNCHANGED << preview_playing, current_preview_frame, mainPc >>
  /\ UNCHANGED << gui_frame_count, gui_bob_height, gui_frame_duration, preview_frames,
                  preview_job, previewThreads, clicks, timers, jobs, indexed >>
  /\ UNCHANGED creation
  /\ UNCHANGED animator

\* The main loop runs a due after(delay, self.animate_preview) callback.
TimerFires(tm) ==
  /\ mainPc = "idle"
  /\ tm \in timers
  /\ jobs < MaxJobs
  /\ timers' = timers \ {tm}
  /\ mainPc' = "guard"
  /\ UNCHANGED << gui_frame_count, gui_bob_height, gui_frame_duration, preview_frames,
                  preview_playing, preview_job, current_preview_frame, previewThreads,
                  clicks, startsPending, jobs, indexed >>
  /\ UNCHANGED creation
  /\ UNCHANGED animator

\* animate_preview, lines 655-656
AnimateGuard ==
  /\ mainPc = "guard"
  /\ mainPc' = IF ~preview_playing \/ preview_frames = <<>> THEN "idle" ELSE "index"
  /\ UNCHANGED << gui_frame_count, gui_bob_height, gui_frame_duration, preview_frames,
                  preview_playing, preview_job, current_preview_frame, previewThreads,
                  clicks, startsPending, timers, jobs, indexed >>
  /\ UNCHANGED creation
  /\ UNCHANGED animator

\* animate_preview, line 659: self.preview_frames[self.current_preview_frame].
\* An IndexError ends the callback.
AnimateIndex ==
  /\ mainPc = "index"
  /\ indexed' = [called |-> TRUE, at |-> current_preview_frame,
                 len |-> Len(preview_frames)]
  /\ mainPc' = IF current_preview_frame < Len(preview_frames) THEN "advance" ELSE "idle"
  /\ UNCHANGED << gui_frame_count, gui_bob_height, gui_frame_duration, preview_frames,
                  preview_playing, preview_job, current_preview_frame, previewThreads,
                  clicks, startsPending, timers, jobs >>
  /\ UNCHANGED creation
  /\ UNCHANGED animator

\* animate_preview, lines 662-666.  The modulo raises ZeroDivisionError on an
\* empty list and ends the callback.
AnimateAdvance ==
  /\ mainPc = "advance"
  /\ mainPc' = "idle"
  /\ IF preview_frames = <<>>
       THEN UNCHANGED << current_preview_frame, preview_job, timers, jobs >>
       ELSE /\ current_preview_frame' = (current_preview_frame + 1) % Len(preview_frames)
            /\ jobs' = jobs + 1
            /\ timers' = timers \cup
                 {[id |-> jobs + 1,
                   delay |-> PreviewDelay(gui_frame_duration),
                   cfgDuration |-> gui_frame_duration]}
            /\ preview_job' = jobs + 1
  /\ UNCHANGED << gui_frame_count, gui_bob_height, gui_frame_duration, preview_frames,
                  preview_playing, previewThreads, clicks, startsPending, indexed >>
  /\ UNCHANGED creation
  /\ UNCHANGED animator

NextGui ==
  \/ \E fc \in FrameCountSlider, fd \in DurationSlider : MoveSliders(fc, fd)
  \/ ClickPreview
  \/ \E t \in 1..MaxClicks : PreviewCompose(t)
  \/ \E t \in 1..MaxClicks : PreviewClear(t)
  \/ \E t \in 1..MaxClicks : PreviewAppend(t)
  \/ \E t \in 1..MaxClicks : PreviewSchedule(t)
  \/ StartPreviewAnimation
  \/ \E tm \in timers : TimerFires(tm)
  \/ AnimateGuard
  \/ AnimateIndex
  \/ AnimateAdvance

InitGui == Init /\ cpu_count = 2

SpecGui == InitGui /\ [][NextGui]_vars

(***************************************************************************)
(* PNGBobAnimatorGUI: the Create Animation button.  The creation thread    *)
(* runs a private animator; what it shares with the main loop is the       *)
(* progress variable, which it sets directly at line 514, and the          *)
(* callbacks it hands to root.after(0, ...), which the main loop runs in   *)
(* the order they were handed in.  The callbacks that only change a label  *)
(* or open a message box are left out; the frames themselves are the       *)
(* subject of Spec.                                                        *)
(***************************************************************************)
ProgressFrames == 90      \* progress = (i + 1) / animator.frame_count * 90
ProgressSaving == 95      \* self.progress_var.set(95)
ProgressDone == 100       \* self.progress_var.set(100)

SetProgress(p) == [kind |-> "progress", value |-> p]
EnableButton == [kind |-> "enable", value |-> 0]

\* line 561: progress after frame index k of n; the code keeps the float, the
\* model its whole part
FrameProgress(k, n) == ((k + 1) * ProgressFrames) \div n

\* A thread in the finally clause of line 546: the animator and the loop
\* index of create_animation_with_progress are no longer in use.
Unwound(outcome) == [pc |-> "finally", n |-> 0, i |-> 0, outcome |-> outcome]

\* create_animation, lines 495-509, for a click that passes the checks of the
\* input and the output file (a click that fails one returns before changing
\* anything).  A disabled button does not call its command.
ClickCreate ==
  /\ mainPc = "idle"
  /\ create_button = "normal"
  /\ creates < MaxCreates
  /\ create_button' = "disabled"
  /\ creates' = creates + 1
  /\ creationThreads' = [creationThreads EXCEPT ![creates + 1].pc = "started"]
  /\ UNCHANGED << progress_var, afterQueue >>
  /\ UNCHANGED preview
  /\ UNCHANGED animator

\* create_animation_thread, lines 514-532: the progress is set to 0 and the
\* private animator is configured from the settings of the window.
CreationBegin(t) ==
  /\ creationThreads[t].pc = "started"
  /\ progress_var' = 0
  /\ creationThreads' = [creationThreads EXCEPT ![t] =
        [pc |-> "working", n |-> gui_frame_count, i |-> 0, outcome |-> "none"]]
  /\ UNCHANGED << create_button, creates, afterQueue >>
  /\ UNCHANGED preview
  /\ UNCHANGED animator

\* create_animation_with_progress, lines 553-564: one iteration of the loop
\* (the first one with load_png before it).  An exception goes to the except
\* clause of line 541 and on to the finally clause.
CreationFrame(t) ==
  /\ creationThreads[t].pc = "working"
  /\ creationThreads[t].i < creationThreads[t].n
  /\ \E raises \in BOOLEAN :
        IF raises
          THEN /\ creationThreads' = [creationThreads EXCEPT ![t] = Unwound("error")]
               /\ UNCHANGED afterQueue
          ELSE /\ creationThreads' = [creationThreads EXCEPT ![t].i = @ + 1]
               /\ afterQueue' = Append(afterQueue,
                     SetProgress(FrameProgress(creationThreads[t].i, creationThreads[t].n)))
  /\ UNCHANGED << create_button, progress_var, creates >>
  /\ UNCHANGED preview
  /\ UNCHANGED animator

\* lines 567-568: after the loop, before save_gif
CreationBeforeSave(t) ==
  /\ creationThreads[t].pc = "working"
  /\ creationThreads[t].i = creationThreads[t].n
  /\ afterQueue' = Append(afterQueue, SetProgress(ProgressSaving))
  /\ creationThreads' = [creationThreads EXCEPT ![t].pc = "saving"]
  /\ UNCHANGED << create_button, progress_var, creates >>
  /\ UNCHANGED preview
  /\ UNCHANGED animator

\* lines 569-570 and 537-545: save_gif, which may raise, and the end of the
\* try block.
CreationSave(t) ==
  /\ creationThreads[t].pc = "saving"
  /\ \E raises \in BOOLEAN :
        IF raises
          THEN /\ creationThreads' = [creationThreads EXCEPT ![t] = Unwound("error")]
               /\ UNCHANGED afterQueue
          ELSE /\ creationThreads' = [creationThreads EXCEPT ![t] = Unwound("success")]
               /\ afterQueue' = Append(afterQueue, SetProgress(ProgressDone))
  /\ UNCHANGED << create_button, progress_var, creates >>
  /\ UNCHANGED preview
  /\ UNCHANGED animator

\* line 548: self.root.after(0, lambda: self.create_button.config(state="normal"))
CreationPostEnable(t) ==
  /\ creationThreads[t].pc = "finally"
  /\ afterQueue' = Append(afterQueue, EnableButton)
  /\ creationThreads' = [creationThreads EXCEPT ![t].pc = "enabling"]
  /\ UNCHANGED << create_button, progress_var, creates >>
  /\ UNCHANGED preview
  /\ UNCHANGED animator

\* line 549: self.root.after(0, lambda: self.progress_var.set(0)); the thread
\* function returns.
CreationPostReset(t) ==
  /\ creationThreads[t].pc = "enabling"
  /\ afterQueue' = Append(afterQueue, SetProgress(0))
  /\ creationThreads' = [creationThreads EXCEPT ![t].pc = "ended"]
  /\ UNCHANGED << create_button, progress_var, creates >>
  /\ UNCHANGED preview
  /\ UNCHANGED animator

\* The main loop runs the oldest after(0, ...) callback.
RunCallback ==
  /\ mainPc = "idle"
  /\ afterQueue # <<>>
  /\ afterQueue' = Tail(afterQueue)
  /\ IF Head(afterQueue).kind = "enable"
       THEN create_button' = "normal" /\ UNCHANGED progress_var
       ELSE progress_var' = Head(afterQueue).value /\ UNCHANGED create_button
  /\ UNCHANGED << creationThreads, creates >>
  /\ UNCHANGED preview
  /\ UNCHANGED animator

CreationStep ==
  \E t \in 1..MaxCreates :
     \/ CreationBegin(t)
     \/ CreationFrame(t)
     \/ CreationBeforeSave(t)
     \/ CreationSave(t)
     \/ CreationPostEnable(t)
     \/ CreationPostReset(t)

NextCreate ==
  \/ \E fc \in FrameCountSlider, fd \in DurationSlider : MoveSliders(fc, fd)
  \/ ClickCreate
  \/ \E t \in 1..MaxCreates : CreationBegin(t)
  \/ \E t \in 1..MaxCreates : CreationFrame(t)
  \/ \E t \in 1..MaxCreates : CreationBeforeSave(t)
  \/ \E t \in 1..MaxCreates : CreationSave(t)
  \/ \E t \in 1..MaxCreates : CreationPostEnable(t)
  \/ \E t \in 1..MaxCreates : CreationPostReset(t)
  \/ RunCallback

SpecCreate == InitGui /\ [][NextCreate]_vars

\* Every thread that can take a step takes one, and the main loop keeps
\* running the callbacks handed to it; the user need not click.
SpecCreateFair ==
  SpecCreate /\ WF_vars(CreationStep) /\ WF_vars(RunCallback)

(***************************************************************************)
(* Claims.                                                                 *)
(***************************************************************************)
\* The frame list the contract asks for: frame k composed for index k.
FrameListFor(n, bob) == [k \in 1..n |-> CreateFrame(Img, k - 1, n, bob)]

\* C1: when parallel generation (concurrency enabled, frame_count > 4) has
\* completed, the frame list has frame_count entries and entry k is the frame
\* composed for index k, whatever order the worker tasks finished in.
C1_ParallelOrdered ==
  (pc = "generated" /\ UseParallel(use_multiprocessing, frame_count))
    => /\ Len(frames) = frame_count
       /\ \A k \in 1..frame_count :
            frames[k] = CreateFrame(Img, k - 1, frame_count, bob_height)

\* C1 witness: a parallel generation has completed with all its frames.
C1_Witness ==
  /\ pc = "generated"
  /\ UseParallel(use_multiprocessing, frame_count)
  /\ poolSize > 1
  /\ Len(frames) = frame_count
  /\ \A k \in 1..Len(futures) : futures[k].collected

\* C2 (as claimed): the last generation with concurrency enabled and the last
\* with concurrency disabled, made with the same frame_count and bob_height,
\* produced the same frame list.
C2_SameFrameLists ==
  (/\ genLog[TRUE].frame_count >= 1
   /\ genLog[TRUE].frame_count = genLog[FALSE].frame_count
   /\ genLog[TRUE].bob_height = genLog[FALSE].bob_height)
    => genLog[TRUE].frames = genLog[FALSE].frames

\* C3 (as claimed): a run in which a parallel frame task raised does not end
\* with that failure reaching the caller.
C3_TaskFailureContained ==
  (/\ pc = "done"
   /\ call = "create_animation"
   /\ \E k \in 1..Len(futures) : futures[k].state = "raised")
    => result # "FrameError"

\* C4: when palette construction or quantization fails, the call still ends
\* in success and the artifact written is the standard encoding of the whole
\* unquantized frame list.
C4_OptimizationFallback ==
  (pc = "done" /\ optFailure \in {"palette", "quantize"})
    => /\ result = "ok"
       /\ written.mode = "standard"
       /\ written.frames = frames
       /\ written = StandardGif(encoderInput.frames, frame_duration)

\* C4 witness: a run whose quantization failed has ended in success.
C4_Witness ==
  /\ pc = "done"
  /\ call = "create_animation"
  /\ optimize_gif
  /\ optFailure = "quantize"
  /\ result = "ok"
  /\ Len(written.frames) > PaletteSample

\* C5 (as claimed): every run hands exactly frame_count frames to the encoder.
C5_RunEncodesFrameCount ==
  (pc = "done" /\ call = "create_animation" /\ encoderInput.called)
    => Len(encoderInput.frames) = frame_count

\* C6 (as claimed): the animator never holds an out-of-range parameter.
C6_ParamsInRange ==
  /\ frame_count >= 1
  /\ bob_height >= 0
  /\ frame_duration >= 1

\* C7 (as claimed): max_workers is positive, at most the host's parallelism
\* and at most 8, and a pool is created with exactly that size.
C7_WorkersBounded ==
  /\ max_workers >= 1
  /\ max_workers <= cpu_count
  /\ max_workers <= WorkerCeiling
  /\ (poolSize # 0 => poolSize = max_workers)

\* C8: a call in which save_gif found the frame list empty ended with the
\* "No frames to save" error and wrote nothing.
C8_EmptyListRejected ==
  (pc = "done" /\ encoderInput.called /\ encoderInput.frames = <<>>)
    => /\ result = "NoFrames"
       /\ written = NoArtifact

\* C8 witness: a run whose generation produced no frame reached the encoder.
C8_Witness ==
  /\ pc = "done"
  /\ call = "create_animation"
  /\ frame_count = 0
  /\ encoderInput.called
  /\ encoderInput.frames = <<>>
  /\ result = "NoFrames"

\* C9: a create_animation call whose path did not resolve ends in the step
\* that loads the source, with the load error, the frame list as it was,
\* nothing composed, no task dispatched and nothing written.
C9_LoadFailureFirst ==
  [][ (pc # "done" /\ pc' = "done" /\ call' = "create_animation" /\ ~srcResolved')
        => /\ pc = "idle"
           /\ result' = "LoadError"
           /\ frames' = frames
           /\ composed' = 0
           /\ futures' = <<>>
           /\ poolSize' = 0
           /\ written' = NoArtifact
           /\ ~encoderInput'.called ]_vars

\* C9 witness: a run failed to load its source on an animator that already
\* holds frames.
C9_Witness ==
  /\ pc = "done"
  /\ call = "create_animation"
  /\ ~srcResolved
  /\ result = "LoadError"
  /\ frames # <<>>

\* The scaled sine of a frame, in millionths.
ScaledSine(f) == SinMicro(f.index, frame_count) * bob_height

\* C10 (as claimed): the offset of every frame is the integer nearest to
\* sin(2 pi index / frame_count) * bob_height.
C10_OffsetNearest ==
  \A k \in 1..Len(frames) :
     LET d == ScaledSine(frames[k]) - frames[k].offset * SinScale
     IN  2 * d <= SinScale /\ 2 * d >= -SinScale

\* C10 (amended): the offset of every frame is the scaled sine truncated
\* toward zero: the integer of largest magnitude that does not pass it.
C10_OffsetTruncated ==
  \A k \in 1..Len(frames) :
     LET v == ScaledSine(frames[k])
         o == frames[k].offset
     IN  IF v >= 0
           THEN o * SinScale <= v /\ v < (o + 1) * SinScale
           ELSE (o - 1) * SinScale < v /\ v <= o * SinScale

\* C10 witness: a frame has been composed whose scaled sine lies more than
\* one half above its offset, and one whose scaled sine lies more than one
\* half below it.
C10_Witness ==
  /\ \E k \in 1..Len(frames) :
        2 * (ScaledSine(frames[k]) - frames[k].offset * SinScale) > SinScale
  /\ \E k \in 1..Len(frames) :
        2 * (ScaledSine(frames[k]) - frames[k].offset * SinScale) < -SinScale

\* C11: with frame_count >= 1 and bob_height >= 0, the offset of every frame
\* composed lies within -bob_height..bob_height and is 0 for index 0, and so
\* does the offset create_frame computes for index frame_count.
C11_OffsetBounded ==
  /\ \A k \in 1..Len(frames) :
        /\ frames[k].offset <= bob_height
        /\ frames[k].offset >= -bob_height
        /\ (frames[k].index = 0 => frames[k].offset = 0)
        /\ (bob_height = 0 => frames[k].offset = 0)
  /\ LET atEnd == CreateFrame(Img, frame_count, frame_count, bob_height).offset
     IN  atEnd <= bob_height /\ atEnd >= -bob_height

\* C11 witness: a generation has completed whose frames reach both ends of
\* the range, bob_height above and bob_height below the rest position.
C11_Witness ==
  /\ pc = "generated"
  /\ bob_height > 0
  /\ Len(frames) = frame_count
  /\ frames[1].offset = 0
  /\ \E k \in 1..Len(frames) : frames[k].offset = bob_height
  /\ \E k \in 1..Len(frames) : frames[k].offset = -bob_height

\* C12 (as claimed): every frame of the list has the canvas dimensions
\* (source width + 20, source height + 2 bob_height + 20), its source pasted
\* at x = 10 and y = 10 + bob_height - offset, and the pasted source lies
\* within the canvas.
C12_FrameGeometry ==
  \A k \in 1..Len(frames) :
     /\ frames[k].width = Img.width + CanvasMargin
     /\ frames[k].height = Img.height + 2 * bob_height + CanvasMargin
     /\ frames[k].img_x = TopMargin
     /\ frames[k].img_y = TopMargin + bob_height - frames[k].offset
     /\ frames[k].img_x >= 0
     /\ frames[k].img_x + Img.width <= frames[k].width
     /\ frames[k].img_y >= 0
     /\ frames[k].img_y + Img.height <= frames[k].height

\* The frame an artifact frame was encoded from.
EncodedFrom(artifact, k) ==
  IF artifact.mode = "optimized" THEN artifact.frames[k].src ELSE artifact.frames[k]

\* C13: an artifact written by either path holds one frame per frame of the
\* frame list, in the same order, with the configured frame_duration as the
\* duration of the frames, loop count 0 and disposal mode 2.
C13_ArtifactFaithful ==
  (pc = "done" /\ written.mode \in {"optimized", "standard"})
    => /\ Len(written.frames) = Len(frames)
       /\ \A k \in 1..Len(frames) : EncodedFrom(written, k) = frames[k]
       /\ written.duration = frame_duration
       /\ written.loop = 0
       /\ written.disposal = 2

\* C13 witness: a run has written an optimized artifact of more frames than
\* the palette sample, with the default duration.
C13_Witness ==
  /\ pc = "done"
  /\ call = "create_animation"
  /\ result = "ok"
  /\ written.mode = "optimized"
  /\ Len(written.frames) > PaletteSample
  /\ written.duration = DefaultFrameDuration

\* C14: every preview thread that composed its frames composed
\* min(15, configured frame count) of them, frame k for index k - 1; every
\* animate_preview callback was scheduled with the delay
\* max(100, configured frame duration); and no preview ran the palette
\* optimization or wrote an artifact.
C14_PreviewBounded ==
  /\ \A t \in 1..MaxClicks :
        previewThreads[t].pc \in {"composed", "publishing", "done"}
          => /\ Len(previewThreads[t].built) =
                  (IF previewThreads[t].cfgCount < 15
                     THEN previewThreads[t].cfgCount ELSE 15)
             /\ \A k \in 1..Len(previewThreads[t].built) :
                   previewThreads[t].built[k].index = k - 1
  /\ \A tm \in timers :
        tm.delay = (IF tm.cfgDuration > 100 THEN tm.cfgDuration ELSE 100)
  /\ written = NoArtifact
  /\ optFailure = "none"
  /\ ~encoderInput.called

\* C14 witness: a preview has been composed with the Frame Count slider
\* above 15, and it is playing with a callback scheduled at the minimum
\* delay, the Animation Speed slider being below it.
C14_Witness ==
  /\ \E t \in 1..MaxClicks :
        /\ previewThreads[t].pc = "done"
        /\ previewThreads[t].cfgCount > PreviewCap
        /\ Len(previewThreads[t].built) = PreviewCap
  /\ preview_playing
  /\ \E tm \in timers : tm.cfgDuration < PreviewMinDelay /\ tm.delay = PreviewMinDelay

\* C15 (as claimed): a create_animation call that loaded its source has one
\* compositing task per frame index in the pool exactly when concurrency is
\* enabled and frame_count > 4, and otherwise has no task and composes in
\* the loop, frame by frame in index order.
C15_PathBySetting ==
  (call = "create_animation" /\ srcResolved /\ pc \in {"seq", "par", "generated", "done"})
    => IF use_multiprocessing /\ frame_count > 4
         THEN /\ Len(futures) = frame_count
              /\ poolSize > 0
         ELSE /\ futures = <<>>
              /\ poolSize = 0
              /\ (pc = "seq" => composed = i)

\* C16: in a create_animation call, save_gif starts from the state in which
\* generation has completed: every task submitted has finished and has been
\* collected, and the frame list ends with the frame_count frames of this
\* call, in index order; this whole list is what the encoder is given.
C16_EncodeAfterBatch ==
  [][ (call' = "create_animation" /\ ~encoderInput.called /\ encoderInput'.called)
        => /\ pc = "generated"
           /\ \A k \in 1..Len(futures) :
                 futures[k].state # "pending" /\ futures[k].collected
           /\ Len(frames) >= frame_count
           /\ \A k \in 1..frame_count :
                 frames[Len(frames) - frame_count + k].index = k - 1
           /\ encoderInput'.frames = frames ]_vars

\* C16 witness: a parallel run on a pool of several workers has handed its
\* frames to the encoder.
C16_Witness ==
  /\ pc = "done"
  /\ call = "create_animation"
  /\ encoderInput.called
  /\ poolSize > 1
  /\ Len(futures) = frame_count
  /\ Len(futures) > ParallelThreshold
  /\ Len(encoderInput.frames) = frame_count
  /\ result = "ok"

\* C17: an artifact written by the optimized path from a list of n frames
\* has n frames, frame k quantized from frame k of the list, all against one
\* palette of at most 256 colours that was built from the first min(4, n)
\* frames of the list.
C17_SharedPalette ==
  (pc = "done" /\ written.mode = "optimized")
    => LET n == Len(encoderInput.frames)
           shared == written.frames[1].palette
       IN  /\ optFailure = "none"
           /\ n >= 1
           /\ Len(written.frames) = n
           /\ shared.sample = SubSeq(encoderInput.frames, 1, IF n < 4 THEN n ELSE 4)
           /\ shared.colors <= 256
           /\ \A k \in 1..n :
                 /\ written.frames[k].palette = shared
                 /\ written.frames[k].src = encoderInput.frames[k]

\* C17 witness: the optimized path has succeeded on a list longer than the
\* sample, so frames outside the sample were quantized against the palette.
C17_Witness ==
  /\ pc = "done"
  /\ written.mode = "optimized"
  /\ optFailure = "none"
  /\ Len(encoderInput.frames) > PaletteSample
  /\ Len(written.frames[Len(written.frames)].palette.sample) = PaletteSample

\* The frame the last generation with concurrency setting c composed for
\* index k - 1: its frames are the last frame_count of the list it left.
GeneratedFrame(c, k) ==
  genLog[c].frames[Len(genLog[c].frames) - genLog[c].frame_count + k]

\* C18: a step in which compositing task k finishes leaves the animation
\* parameters, the frame list and every other task's future as they were,
\* and the frame it returns is the one create_frame gives for (source, k - 1,
\* frame_count, bob_height): the same frame that an earlier generation with
\* the same parameters composed for that index, whichever tasks finished
\* before it.
C18_CreateFramePure ==
  [][ \A k \in 1..Len(futures) :
        (/\ Len(futures') = Len(futures)
         /\ futures[k].state = "pending"
         /\ futures'[k].state # "pending")
          => /\ params' = params
             /\ frames' = frames
             /\ \A j \in 1..Len(futures) : j # k => futures'[j] = futures[j]
             /\ futures'[k].state = "done"
                  => /\ futures'[k].frame = CreateFrame(Img, k - 1, frame_count, bob_height)
                     /\ \A c \in BOOLEAN :
                           (/\ genLog[c].frame_count = frame_count
                            /\ genLog[c].bob_height = bob_height)
                             => futures'[k].frame = GeneratedFrame(c, k) ]_vars

\* C18 witness: a task has finished ahead of the first task of its batch,
\* with a frame off the rest position, after a sequential generation with
\* the same parameters composed the frame for the same index.
C18_Witness ==
  /\ pc = "par"
  /\ futures[1].state = "pending"
  /\ genLog[FALSE].frame_count = frame_count
  /\ genLog[FALSE].bob_height = bob_height
  /\ \E k \in 2..Len(futures) :
        /\ futures[k].state = "done"
        /\ futures[k].frame.offset # 0
        /\ futures[k].frame = GeneratedFrame(FALSE, k)

\* C19 (as claimed): at most one animate_preview callback is pending, and a
\* pending callback is the one recorded in preview_job (so none is pending
\* once stop_preview has cancelled that one).
C19_OnePendingTimer ==
  /\ Cardinality(timers) <= 1
  /\ \A tm \in timers : tm.id = preview_job

\* C20 (as claimed): whenever line 659 of animate_preview has indexed
\* preview_frames, the index was within 0..len(preview_frames) - 1.
C20_IndexInRange ==
  indexed.called => (indexed.at >= 0 /\ indexed.at < indexed.len)

\* A creation thread that was started and has not returned.
Creating(t) == creationThreads[t].pc \notin {"none", "ended"}

\* C21 (as claimed): while a creation thread has not finished, the Create
\* button is disabled, so at most one creation thread runs at a time; and
\* after a thread has ended the button is eventually enabled again with the
\* progress back at 0.
C21_ButtonGuardsCreation ==
  /\ [](/\ \A t \in 1..MaxCreates : Creating(t) => create_button = "disabled"
        /\ Cardinality({t \in 1..MaxCreates : Creating(t)}) <= 1)
  /\ \A t \in 1..MaxCreates :
        (creationThreads[t].pc = "ended")
           ~> (create_button = "normal" /\ progress_var = 0)

====
